---- MODULE Spec2Model ----
(***************************************************************************)
(* Hydra kernel: a Jupyter kernel that delegates execute requests carrying *)
(* a "chameleon.binding_name" tag to sub-kernels (hydra_kernel/kernel.py), *)
(* and the bootstrap agent that launches a sub-kernel and waits for its    *)
(* connection file (ansible/files/hydra_agent.py).                         *)
(*                                                                         *)
(* Spec      : the kernel process: the dispatcher thread running           *)
(*             HydraKernel.execute_request, the two channel reader threads *)
(*             of every sub-kernel client, and the sub-kernels themselves. *)
(* SpecAgent : one run of the bootstrap agent script together with the     *)
(*             process it launches.                                        *)
(* SpecManager : one spawn_kernel call: HydraKernelManager.pre_start_kernel*)
(*             (spec lookup, remote spawn, tunnel) and the channel start.  *)
(***************************************************************************)
EXTENDS Integers, Sequences, FiniteSets, TLC

\* ---------------------------------------------------------------- bounds
\* Number of execute requests that arrive at the kernel in one behaviour.
MaxRequests == 2
\* Largest exit status the launched process may terminate with.
MaxStatus == 3
\* Largest number of seconds given with --timeout.
MaxTimeoutArg == 2

\* ------------------------------------------------------------- constants
None == "None"
\* kernel.poll() of a process that has not terminated (Python's None).
NoRet == -1
\* parser.add_argument("--timeout", default=10, ...), in seconds.
DefaultTimeout == 10
\* time.sleep(0.1): sleeps of the polling loop per second.
SleepsPerSecond == 10
\* Binding names known to the binding manager.
Targets == {"b1", "b2"}
\* self.shell_streams of the kernel: the sinks of ProxyComms.shells.
shell_streams == {"shell", "control"}

\* An execute request as it arrives on the kernel's shell stream.
\*   binding_name : parent["metadata"].get("chameleon.binding_name")
\*   silent       : parent["content"]["silent"]
\*   stop_on_error: parent["content"]["stop_on_error"], or "absent"
\* execute_request reads the content of tagged requests only, so the
\* content of an untagged request is left at one value.
Requests(id) ==
    [id : {id}, binding_name : Targets, silent : BOOLEAN,
     stop_on_error : {"True", "False", "absent"}]
    \cup [id : {id}, binding_name : {None}, silent : {FALSE},
          stop_on_error : {"absent"}]

VARIABLES
    \* --- the kernel process (kernel.py)
    queue,        \* execute requests pending on the caller's shell stream
    arrivals,     \* number of requests that have arrived so far
    pc,           \* position of the dispatcher thread in execute_request
    cur,          \* the request execute_request is running for, or None
    kernels,      \* HydraKernel._kernels: binding name -> handle id, 0 = absent
    nextHandle,   \* id the next started kernel manager gets
    shell_out,    \* per binding: messages sent to the sub-kernel, not yet handled
    iopub_q,      \* per binding: iopub messages received, not yet handed to call_handlers
    shell_q,      \* per binding: shell messages received, not yet handed to call_handlers
    iopub_pipes,  \* per binding: HydraChannel._pipes of the iopub channel
    shell_pipes,  \* per binding: HydraChannel._pipes of the shell channel
    proxy,        \* per request id: the ProxyComms fields _reply_content, _kernel_idle
    iopub_socket, \* messages session.send wrote to the caller's iopub socket
                  \* for the request being executed
    shell_sinks,  \* per shell stream: messages session.send wrote to it for
                  \* the request being executed
    hist,         \* history of the run (what was delivered, spawned, aborted)
    \* --- the bootstrap agent (hydra_agent.py)
    args,         \* parsed command line
    a_pc,         \* position of the agent script
    now,          \* time.perf_counter() - start, in sleeps of the polling loop
    file,         \* contents of connection_file, None while it does not exist
    proc,         \* exit status of the launched process, NoRet while it runs
    ret,          \* the script's ret = kernel.poll() (line 52), NoRet until assigned
    stdout,       \* what the agent printed
    raised,       \* the exception that ended the agent, or None
    \* --- one kernel manager being started by spawn_kernel (kernel.py:59-190)
    km,           \* the manager's settings: tunnel, and is_loopback of its binding
    m_pc,         \* position in pre_start_kernel / spawn_kernel
    specs,        \* the kernel spec manager knows a spec of kernel_name
    remote,       \* number of engines "hydra spawn" has started on the target
    conn,         \* the manager's connection info: the five ports
    m_raised,     \* the exception that ended spawn_kernel, or None
    m_hist        \* history of the start (installs, spawn result, tunnel ports)

kernelVars == <<queue, arrivals, pc, cur, kernels, nextHandle, shell_out, iopub_q,
                shell_q, iopub_pipes, shell_pipes, proxy, iopub_socket,
                shell_sinks, hist>>
agentVars == <<args, a_pc, now, file, proc, ret, stdout, raised>>
managerVars == <<km, m_pc, specs, remote, conn, m_raised, m_hist>>
vars == <<kernelVars, agentVars, managerVars>>

\* ------------------------------------------------------------- messages
Msg(type, content, parent) == [msg_type |-> type, content |-> content, parent |-> parent]

\* A message as a sub-kernel emits it: parent is the id of the message it
\* answers, seq its position among the messages emitted on the same channel
\* for that parent.
Emitted(type, content, parent, seq) ==
    [msg_type |-> type, content |-> content, parent |-> parent, seq |-> seq]

\* ProxyComms.__init__: no reply recorded, idle not observed.
ProxyInit == [reply_content |-> None, kernel_idle |-> FALSE]

\* Variant of reply_content: returns _reply_content without looking at _kernel_idle.
reply_content_NoIdleCheck(p) == p.reply_content
\* ProxyComms.reply_content (the property): None until idle was observed.
reply_content(p) == IF ~p.kernel_idle THEN None ELSE p.reply_content

\* The part of the state the two handlers of a ProxyComms write: the proxies,
\* the caller's sinks, and the record of which signals each proxy was handed.
World == [proxy |-> proxy, iopub |-> iopub_socket, shells |-> shell_sinks,
          hist |-> hist]

\* Variant of Send: the message is written twice.
Send_Twice(sink, msg, parent) ==
    Append(Append(sink, Msg(msg.msg_type, msg.content, parent)),
           Msg(msg.msg_type, msg.content, parent))
\* session.send(stream, msg_type, content=content, parent=self.parent, ...)
Send(sink, msg, parent) == Append(sink, Msg(msg.msg_type, msg.content, parent))

IsIdle(msg) == msg.msg_type = "status" /\ msg.content = "idle"

\* ProxyComms.on_iopub_message of the proxy of request p.
on_iopub_message(w, p, msg) ==
    LET w1 == [w EXCEPT !.iopub = Send(@, msg, p)]
    IN  IF msg.msg_type = "status" /\ msg.content = "idle"
        THEN [w1 EXCEPT !.proxy[p].kernel_idle = TRUE]
        ELSE w1

\* Variant of on_shell_message: without the early return for execute_request.
on_shell_message_NoEchoCheck(w, p, msg) ==
    LET w1 == [w EXCEPT !.shells = [s \in shell_streams |-> Send(w.shells[s], msg, p)]]
    IN  IF msg.msg_type = "execute_reply"
        THEN [w1 EXCEPT !.proxy[p].reply_content = msg.content]
        ELSE w1
\* Variant of on_shell_message: records the reply only once idle has been observed.
on_shell_message_ReplyAfterIdle(w, p, msg) ==
    IF msg.msg_type = "execute_request"
    THEN w
    ELSE LET w1 == [w EXCEPT !.shells =
                        [s \in shell_streams |-> Send(w.shells[s], msg, p)]]
         IN  IF msg.msg_type = "execute_reply" /\ w.proxy[p].kernel_idle
             THEN [w1 EXCEPT !.proxy[p].reply_content = msg.content]
             ELSE w1
\* ProxyComms.on_shell_message of the proxy of request p.
on_shell_message(w, p, msg) ==
    IF msg.msg_type = "execute_request"
    THEN w
    ELSE LET w1 == [w EXCEPT !.shells =
                        [s \in shell_streams |-> Send(w.shells[s], msg, p)]]
         IN  IF msg.msg_type = "execute_reply"
             THEN [w1 EXCEPT !.proxy[p].reply_content = msg.content]
             ELSE w1

\* A handler is a bound method: the function and the proxy it belongs to.
Handler(fn, p) == [fn |-> fn, self |-> p]

\* History: the signal a message hands to the proxy whose handler is called.
Signal(fn, msg) ==
    IF fn = "on_iopub_message" /\ IsIdle(msg) THEN "idle"
    ELSE IF fn = "on_shell_message" /\ msg.msg_type = "execute_reply" THEN "reply"
    ELSE IF fn = "on_shell_message" /\ msg.msg_type = "execute_request" THEN "echo"
    ELSE None

Range(seq) == {seq[i] : i \in DOMAIN seq}

\* History: handler h is about to be called with msg.
Note(w, h, msg) ==
    LET sig == Signal(h.fn, msg)
        p == h.self
        w1 == IF sig \in {"idle", "reply"} /\ sig \notin Range(w.hist.got[p])
              THEN [w EXCEPT !.hist.got[p] = Append(@, sig)] ELSE w
        w2 == IF sig = "reply" THEN [w1 EXCEPT !.hist.reply[p] = msg.content] ELSE w1
        w3 == IF sig = "echo" THEN [w2 EXCEPT !.hist.echoed = @ \cup {p}] ELSE w2
        in == [msg_type |-> msg.msg_type, content |-> msg.content, parent |-> p,
               origin |-> msg.parent, seq |-> msg.seq]
    IN  IF h.fn = "on_iopub_message"
        THEN [w3 EXCEPT !.hist.in_iopub = Append(@, in)]
        ELSE [w3 EXCEPT !.hist.in_shell = Append(@, in)]

\* History: msg was handed to call_handlers of a channel with the handlers
\* pipes. A response to an execute_request (not the request coming back)
\* that finds no handler is lost.
NoteLost(h, pipes, msg) ==
    IF pipes = <<>> /\ msg.parent # 0 /\ msg.msg_type # "execute_request"
    THEN [h EXCEPT !.lost = @ \cup {[msg_type |-> msg.msg_type, content |-> msg.content,
                                      origin |-> msg.parent]}]
    ELSE h

\* handler(msg) for one element of _pipes.
Call(w, h, msg) ==
    IF h.fn = "on_iopub_message"
    THEN on_iopub_message(Note(w, h, msg), h.self, msg)
    ELSE on_shell_message(Note(w, h, msg), h.self, msg)

\* HydraChannel.call_handlers: every piped handler, in order; none piped,
\* the message is dropped.
RECURSIVE call_handlers(_, _, _)
call_handlers(w, pipes, msg) ==
    IF pipes = <<>> THEN w
    ELSE call_handlers(Call(w, Head(pipes), msg), Tail(pipes), msg)

\* channel.flush(): call_handlers for every message already received.
RECURSIVE flush(_, _, _)
flush(w, pipes, q) ==
    IF q = <<>> THEN w
    ELSE flush(call_handlers(w, pipes, Head(q)), pipes, Tail(q))

\* Variant of stop_on_error: an absent flag counts as not set.
stop_on_error_DefaultFalse(parent) == parent.stop_on_error = "True"
\* parent["content"].get("stop_on_error", True)
stop_on_error(parent) ==
    IF parent.stop_on_error = "absent" THEN TRUE ELSE parent.stop_on_error = "True"

\* Python truth value of proxy.reply_content: None is false, a reply's
\* content (a non-empty dict) is true.
Truthy(v) == v # None

\* An error message: its text, the exit status it states (NoRet: none) and
\* whether it names log_file.
Message(text, status, log) == [text |-> text, status |-> status, log_file |-> log]

\* No exception has been raised.
NoError == [type |-> None, msg |-> Message("", NoRet, FALSE)]

\* The agent script is not running in the kernel process.
AgentOff ==
    /\ args = None /\ a_pc = "off" /\ now = 0 /\ file = None /\ proc = NoRet /\ ret = NoRet
    /\ stdout = <<>> /\ raised = NoError

\* No kernel manager is being started.
ManagerOff ==
    /\ km = None /\ m_pc = "off" /\ specs = FALSE /\ remote = 0 /\ conn = None
    /\ m_raised = None /\ m_hist = None

\* ------------------------------------------------------------ the kernel
Ids == 1..MaxRequests

InitKernel ==
    /\ queue = <<>>
    /\ arrivals = 0
    /\ pc = "ready"
    /\ cur = None
    /\ kernels = [b \in Targets |-> 0]
    /\ nextHandle = 1
    /\ shell_out = [b \in Targets |-> <<>>]
    /\ iopub_q = [b \in Targets |-> <<>>]
    /\ shell_q = [b \in Targets |-> <<>>]
    /\ iopub_pipes = [b \in Targets |-> <<>>]
    /\ shell_pipes = [b \in Targets |-> <<>>]
    /\ proxy = [i \in Ids |-> ProxyInit]
    /\ iopub_socket = <<>>
    /\ shell_sinks = [s \in shell_streams |-> <<>>]
    /\ hist = [got      |-> [i \in Ids |-> <<>>],   \* idle, reply: order in which proxy i was handed them
               reply    |-> [i \in Ids |-> None],   \* content of the execute_reply handed to proxy i
               echoed   |-> {},                     \* proxies handed an execute_request
               emitted  |-> [i \in Ids |-> None],   \* status of the reply the sub-kernel sent
               spawned  |-> [b \in Targets |-> 0],  \* spawn_kernel calls that returned
               used     |-> [i \in Ids |-> [binding_name |-> None, kc |-> 0]],
                                                    \* the client request i was sent to
               local    |-> <<>>,                   \* requests given to the local engine
               aborts   |-> {},                     \* requests that called _abort_queues
               aborted  |-> {},                     \* pending requests an abort removed
               in_iopub |-> <<>>,                   \* messages handed to the iopub handler, and
               in_shell |-> <<>>,                   \* to the shell handler, for the current request
               lost     |-> {},                     \* responses handed to a channel without handler
               failed   |-> {},                     \* requests whose spawn_kernel raised
               shutdown |-> {}]                     \* handles shut down by spawn_kernel

\* A request arrives on the caller's shell stream and waits its turn.
Arrive ==
    /\ arrivals < MaxRequests
    /\ \E r \in Requests(arrivals + 1) : queue' = Append(queue, r)
    /\ arrivals' = arrivals + 1
    /\ UNCHANGED <<agentVars, managerVars, pc, cur, kernels, nextHandle, shell_out, iopub_q, shell_q,
                   iopub_pipes, shell_pipes, proxy, iopub_socket, shell_sinks, hist>>

\* not binding_name (kernel.py:262)
HasBinding(parent) == parent.binding_name # None

\* Variant of ExecuteLocal: the local path also aborts the pending queue.
ExecuteLocal_ThenAborts ==
    /\ pc = "ready" /\ queue # <<>>
    /\ Head(queue).binding_name = None
    /\ queue' = <<>>
    /\ hist' = [hist EXCEPT !.local = Append(@, Head(queue).id),
                            !.aborts = @ \cup {Head(queue).id}]
    /\ UNCHANGED <<agentVars, managerVars, arrivals, pc, cur, kernels, nextHandle, shell_out, iopub_q,
                   shell_q, iopub_pipes, shell_pipes, proxy, iopub_socket, shell_sinks>>
\* execute_request, lines 260-263: no binding name, the request goes to
\* IPythonKernel.execute_request and execute_request returns.
ExecuteLocal ==
    /\ pc = "ready" /\ queue # <<>>
    /\ ~HasBinding(Head(queue))
    /\ queue' = Tail(queue)
    /\ hist' = [hist EXCEPT !.local = Append(@, Head(queue).id)]
    /\ UNCHANGED <<agentVars, managerVars, arrivals, pc, cur, kernels, nextHandle, shell_out, iopub_q, shell_q,
                   iopub_pipes, shell_pipes, proxy, iopub_socket, shell_sinks>>

\* kc.start_channels(shell=True, ...) of a new client sends a
\* kernel_info_request on the shell channel (kernel.py:185).
KernelInfoRequest == [msg_type |-> "kernel_info_request", content |-> "", msg_id |-> 0]

\* kc.session.msg("execute_request", content)
Outbound(parent) == [msg_type |-> "execute_request", content |-> "code",
                     msg_id |-> parent.id]

\* Variant of NeedsSpawn: the cache is not consulted.
NeedsSpawn_Always(b) == TRUE
\* binding_name not in self._kernels (kernel.py:270)
NeedsSpawn(b) == kernels[b] = 0

\* execute_request, lines 260-286, when no spawn_kernel call raises: the
\* sub-kernel is looked up, or spawned and cached; the proxy is created and
\* the outbound execute_request is sent on the shell channel.
ExecuteDelegated ==
    /\ pc = "ready" /\ queue # <<>>
    /\ HasBinding(Head(queue))
    /\ LET parent == Head(queue)
           b == parent.binding_name
           spawn == NeedsSpawn(b)
           kc == IF spawn THEN nextHandle ELSE kernels[b]
       IN  /\ kernels' = [kernels EXCEPT ![b] = kc]
           /\ nextHandle' = IF spawn THEN nextHandle + 1 ELSE nextHandle
           /\ proxy' = [proxy EXCEPT ![parent.id] = ProxyInit]
           /\ shell_out' = [shell_out EXCEPT ![b] =
                  @ \o (IF spawn THEN <<KernelInfoRequest>> ELSE <<>>) \o <<Outbound(parent)>>]
           /\ hist' = [hist EXCEPT !.spawned[b] = IF spawn THEN @ + 1 ELSE @,
                                   !.used[parent.id] = [binding_name |-> b, kc |-> kc]]
           /\ cur' = parent
    /\ queue' = Tail(queue)
    /\ pc' = "pipe_iopub"
    /\ UNCHANGED <<agentVars, managerVars, arrivals, iopub_q, shell_q, iopub_pipes, shell_pipes,
                   iopub_socket, shell_sinks>>

\* Variant of ExecuteSpawnFails: spawn_kernel without the except clause.
ExecuteSpawnFails_NoShutdown ==
    /\ pc = "ready" /\ queue # <<>>
    /\ HasBinding(Head(queue))
    /\ NeedsSpawn(Head(queue).binding_name)
    /\ \E where \in {"start_kernel", "start_channels"} :
         /\ nextHandle' = IF where = "start_channels" THEN nextHandle + 1 ELSE nextHandle
         /\ hist' = [hist EXCEPT !.failed = @ \cup {Head(queue).id}]
    /\ queue' = Tail(queue)
    /\ UNCHANGED <<agentVars, managerVars, arrivals, pc, cur, kernels, shell_out, iopub_q, shell_q,
                   iopub_pipes, shell_pipes, proxy, iopub_socket, shell_sinks>>
\* execute_request, lines 260-276, when spawn_kernel raises. In start_kernel
\* (bootstrap, spawn result, tunnel) no manager is left behind; in
\* start_channels the manager is shut down (kernel.py:186-188). Nothing is
\* cached and the exception ends execute_request.
ExecuteSpawnFails ==
    /\ pc = "ready" /\ queue # <<>>
    /\ HasBinding(Head(queue))
    /\ NeedsSpawn(Head(queue).binding_name)
    /\ \E where \in {"start_kernel", "start_channels"} :
         /\ nextHandle' = IF where = "start_channels" THEN nextHandle + 1 ELSE nextHandle
         /\ hist' = [hist EXCEPT !.failed = @ \cup {Head(queue).id},
                                 !.shutdown = IF where = "start_channels"
                                              THEN @ \cup {nextHandle} ELSE @]
    /\ queue' = Tail(queue)
    /\ UNCHANGED <<agentVars, managerVars, arrivals, pc, cur, kernels, shell_out, iopub_q, shell_q,
                   iopub_pipes, shell_pipes, proxy, iopub_socket, shell_sinks>>

\* kc.iopub_channel.pipe(proxy.on_iopub_message) (kernel.py:287)
PipeIopub ==
    /\ pc = "pipe_iopub"
    /\ iopub_pipes' = [iopub_pipes EXCEPT ![cur.binding_name] =
                           Append(@, Handler("on_iopub_message", cur.id))]
    /\ pc' = "pipe_shell"
    /\ UNCHANGED <<agentVars, managerVars, queue, arrivals, cur, kernels, nextHandle, shell_out, iopub_q, shell_q,
                   shell_pipes, proxy, iopub_socket, shell_sinks, hist>>

\* kc.shell_channel.pipe(proxy.on_shell_message) (kernel.py:288)
PipeShell ==
    /\ pc = "pipe_shell"
    /\ shell_pipes' = [shell_pipes EXCEPT ![cur.binding_name] =
                           Append(@, Handler("on_shell_message", cur.id))]
    /\ pc' = "wait"
    /\ UNCHANGED <<agentVars, managerVars, queue, arrivals, cur, kernels, nextHandle, shell_out, iopub_q, shell_q,
                   iopub_pipes, proxy, iopub_socket, shell_sinks, hist>>

\* Variant of WaitDone: the loop tests _reply_content instead of the accessor.
WaitDone_OnReplyField ==
    /\ pc = "wait"
    /\ Truthy(proxy[cur.id].reply_content)
    /\ pc' = "flush"
    /\ UNCHANGED <<agentVars, managerVars, queue, arrivals, cur, kernels, nextHandle, shell_out, iopub_q,
                   shell_q, iopub_pipes, shell_pipes, proxy, iopub_socket, shell_sinks, hist>>
\* while not proxy.reply_content: time.sleep(0.1) (kernel.py:292-293): the
\* loop is left when the accessor yields a true value.
WaitDone ==
    /\ pc = "wait"
    /\ Truthy(reply_content(proxy[cur.id]))
    /\ pc' = "flush"
    /\ UNCHANGED <<agentVars, managerVars, queue, arrivals, cur, kernels, nextHandle, shell_out, iopub_q, shell_q,
                   iopub_pipes, shell_pipes, proxy, iopub_socket, shell_sinks, hist>>

\* kc.iopub_channel.flush() (kernel.py:295)
Flush ==
    /\ pc = "flush"
    /\ LET b == cur.binding_name
           w == flush(World, iopub_pipes[b], iopub_q[b])
       IN  /\ iopub_q' = [iopub_q EXCEPT ![b] = <<>>]
           /\ proxy' = w.proxy
           /\ iopub_socket' = w.iopub
           /\ shell_sinks' = w.shells
           /\ hist' = w.hist
    /\ pc' = "unpipe_iopub"
    /\ UNCHANGED <<agentVars, managerVars, queue, arrivals, cur, kernels, nextHandle, shell_out, shell_q,
                   iopub_pipes, shell_pipes>>

\* kc.iopub_channel.unpipe() (kernel.py:296)
UnpipeIopub ==
    /\ pc = "unpipe_iopub"
    /\ iopub_pipes' = [iopub_pipes EXCEPT ![cur.binding_name] = <<>>]
    /\ pc' = "unpipe_shell"
    /\ UNCHANGED <<agentVars, managerVars, queue, arrivals, cur, kernels, nextHandle, shell_out, iopub_q, shell_q,
                   shell_pipes, proxy, iopub_socket, shell_sinks, hist>>

\* Variant of UnpipeShell: the handlers of the shell channel are kept.
UnpipeShell_KeepsHandlers ==
    /\ pc = "unpipe_shell"
    /\ pc' = "abort"
    /\ UNCHANGED <<agentVars, managerVars, queue, arrivals, cur, kernels, nextHandle, shell_out,
                   iopub_q, shell_q, iopub_pipes, shell_pipes, proxy, iopub_socket,
                   shell_sinks, hist>>
\* kc.shell_channel.unpipe() (kernel.py:297)
UnpipeShell ==
    /\ pc = "unpipe_shell"
    /\ shell_pipes' = [shell_pipes EXCEPT ![cur.binding_name] = <<>>]
    /\ pc' = "abort"
    /\ UNCHANGED <<agentVars, managerVars, queue, arrivals, cur, kernels, nextHandle, shell_out, iopub_q, shell_q,
                   iopub_pipes, proxy, iopub_socket, shell_sinks, hist>>

\* not silent and proxy.reply_content["status"] == "error" and stop_on_error
\* (kernel.py:299)
ShouldAbort(parent, p) ==
    ~parent.silent /\ reply_content(p) = "error" /\ stop_on_error(parent)

\* History of a request that has returned: the proxy is no longer referenced,
\* and what was recorded about its messages is dropped with it.
Forget(h, id) ==
    [h EXCEPT !.got[id] = <<>>, !.reply[id] = None, !.emitted[id] = None,
              !.echoed = @ \ {id}, !.in_iopub = <<>>, !.in_shell = <<>>, !.lost = {}]

\* Variant of Finish: a request that aborts the queue also drops the
\* sub-kernel it ran on from _kernels.
Finish_DropsKernelOnAbort ==
    /\ pc = "abort"
    /\ IF ShouldAbort(cur, proxy[cur.id])
       THEN /\ queue' = <<>>
            /\ kernels' = [kernels EXCEPT ![cur.binding_name] = 0]
            /\ hist' = [Forget(hist, cur.id) EXCEPT
                            !.aborts = @ \cup {cur.id},
                            !.aborted = @ \cup {queue[i].id : i \in DOMAIN queue}]
       ELSE /\ queue' = queue
            /\ kernels' = kernels
            /\ hist' = Forget(hist, cur.id)
    /\ proxy' = [proxy EXCEPT ![cur.id] = ProxyInit]
    /\ iopub_socket' = <<>>
    /\ shell_sinks' = [s \in shell_streams |-> <<>>]
    /\ pc' = "ready"
    /\ cur' = None
    /\ UNCHANGED <<agentVars, managerVars, arrivals, nextHandle, shell_out, iopub_q, shell_q,
                   iopub_pipes, shell_pipes>>
\* execute_request, lines 299-300: self._abort_queues() answers every request
\* pending on the caller's shell streams as aborted; then execute_request
\* returns. iopub_socket and shell_sinks hold what was written for the
\* request being executed, so they start empty for the next one.
Finish ==
    /\ pc = "abort"
    /\ IF ShouldAbort(cur, proxy[cur.id])
       THEN /\ queue' = <<>>
            /\ hist' = [Forget(hist, cur.id) EXCEPT
                            !.aborts = @ \cup {cur.id},
                            !.aborted = @ \cup {queue[i].id : i \in DOMAIN queue}]
       ELSE /\ queue' = queue
            /\ hist' = Forget(hist, cur.id)
    /\ proxy' = [proxy EXCEPT ![cur.id] = ProxyInit]
    /\ iopub_socket' = <<>>
    /\ shell_sinks' = [s \in shell_streams |-> <<>>]
    /\ pc' = "ready"
    /\ cur' = None
    /\ UNCHANGED <<agentVars, managerVars, arrivals, kernels, nextHandle, shell_out, iopub_q, shell_q,
                   iopub_pipes, shell_pipes>>

\* The sub-kernel of binding b handles the kernel_info_request of a new
\* client. Of what it emits, the status idle that ends the handling is kept:
\* the client receives it if its iopub socket is subscribed by then.
SubKernelHandshake(b) ==
    /\ shell_out[b] # <<>>
    /\ Head(shell_out[b]).msg_type = "kernel_info_request"
    /\ LET m == Head(shell_out[b])
       IN  \E heard \in BOOLEAN :
             /\ iopub_q' = [iopub_q EXCEPT ![b] =
                    @ \o (IF heard THEN <<Emitted("status", "idle", m.msg_id, 2)>>
                          ELSE <<>>)]
             /\ shell_q' = shell_q
    /\ shell_out' = [shell_out EXCEPT ![b] = Tail(@)]
    /\ UNCHANGED <<agentVars, managerVars, queue, arrivals, pc, cur, kernels, nextHandle,
                   iopub_pipes, shell_pipes, proxy, iopub_socket, shell_sinks, hist>>

\* The sub-kernel of binding b handles one execute_request: on iopub it
\* publishes status busy and, when done, status idle; on shell it answers with
\* one execute_reply (status ok or error). The request itself may come back
\* on the shell channel (kernel.py:160-163).
SubKernelExecutes(b) ==
    /\ shell_out[b] # <<>>
    /\ Head(shell_out[b]).msg_type = "execute_request"
    /\ LET m == Head(shell_out[b])
       IN  \E st \in {"ok", "error"}, echo \in BOOLEAN :
             /\ iopub_q' = [iopub_q EXCEPT ![b] =
                    @ \o <<Emitted("status", "busy", m.msg_id, 1),
                           Emitted("status", "idle", m.msg_id, 2)>>]
             /\ shell_q' = [shell_q EXCEPT ![b] =
                    @ \o (IF echo THEN <<Emitted(m.msg_type, m.content, m.msg_id, 1)>> ELSE <<>>)
                      \o <<Emitted("execute_reply", st, m.msg_id, 2)>>]
             /\ hist' = [hist EXCEPT !.emitted[m.msg_id] = st]
    /\ shell_out' = [shell_out EXCEPT ![b] = Tail(@)]
    /\ UNCHANGED <<agentVars, managerVars, queue, arrivals, pc, cur, kernels, nextHandle, iopub_pipes,
                   shell_pipes, proxy, iopub_socket, shell_sinks>>

\* Variant of DeliverIopub: the newest message received is handed over first.
DeliverIopub_NewestFirst(b) ==
    /\ iopub_q[b] # <<>>
    /\ LET n == Len(iopub_q[b])
           w == call_handlers(World, iopub_pipes[b], iopub_q[b][n])
       IN  /\ proxy' = w.proxy
           /\ iopub_socket' = w.iopub
           /\ shell_sinks' = w.shells
           /\ hist' = NoteLost(w.hist, iopub_pipes[b], iopub_q[b][n])
           /\ iopub_q' = [iopub_q EXCEPT ![b] = SubSeq(@, 1, n - 1)]
    /\ UNCHANGED <<agentVars, managerVars, queue, arrivals, pc, cur, kernels, nextHandle, shell_out,
                   shell_q, iopub_pipes, shell_pipes>>
\* The reader thread of b's iopub channel hands the next message to
\* call_handlers.
DeliverIopub(b) ==
    /\ iopub_q[b] # <<>>
    /\ LET w == call_handlers(World, iopub_pipes[b], Head(iopub_q[b]))
       IN  /\ proxy' = w.proxy
           /\ iopub_socket' = w.iopub
           /\ shell_sinks' = w.shells
           /\ hist' = NoteLost(w.hist, iopub_pipes[b], Head(iopub_q[b]))
    /\ iopub_q' = [iopub_q EXCEPT ![b] = Tail(@)]
    /\ UNCHANGED <<agentVars, managerVars, queue, arrivals, pc, cur, kernels, nextHandle, shell_out, shell_q,
                   iopub_pipes, shell_pipes>>

\* The reader thread of b's shell channel hands the next message to
\* call_handlers.
DeliverShell(b) ==
    /\ shell_q[b] # <<>>
    /\ LET w == call_handlers(World, shell_pipes[b], Head(shell_q[b]))
       IN  /\ proxy' = w.proxy
           /\ iopub_socket' = w.iopub
           /\ shell_sinks' = w.shells
           /\ hist' = NoteLost(w.hist, shell_pipes[b], Head(shell_q[b]))
    /\ shell_q' = [shell_q EXCEPT ![b] = Tail(@)]
    /\ UNCHANGED <<agentVars, managerVars, queue, arrivals, pc, cur, kernels, nextHandle, shell_out, iopub_q,
                   iopub_pipes, shell_pipes>>

NextKernel ==
    \/ Arrive
    \/ ExecuteLocal
    \/ ExecuteDelegated
    \/ ExecuteSpawnFails
    \/ PipeIopub
    \/ PipeShell
    \/ WaitDone
    \/ Flush
    \/ UnpipeIopub
    \/ UnpipeShell
    \/ Finish
    \/ \E b \in Targets : SubKernelHandshake(b)
    \/ \E b \in Targets : SubKernelExecutes(b)
    \/ \E b \in Targets : DeliverIopub(b)
    \/ \E b \in Targets : DeliverShell(b)

Init == InitKernel /\ AgentOff /\ ManagerOff
Next == NextKernel
Spec == Init /\ [][Next]_vars

\* ------------------------------------------------- properties of the kernel
\* The dispatcher has left the loop of lines 292-293 for the current request.
LeftWait == pc \in {"flush", "unpipe_iopub", "unpipe_shell", "abort"}

\* The signals the proxy of request i has been handed so far.
Handed(i) == Range(hist.got[i])

\* C1: the dispatcher is past its completion wait only when the proxy of the
\* request has observed an idle status on iopub and recorded an execute_reply
\* from shell, whichever came first.
C1_WaitLeftOnlyWhenIdleAndReplied ==
    LeftWait =>
        /\ proxy[cur.id].kernel_idle
        /\ proxy[cur.id].reply_content # None
        /\ Handed(cur.id) = {"idle", "reply"}

\* C1 witness: the wait was left for a request whose reply came before idle.
C1_Witness == LeftWait /\ hist.got[cur.id] = <<"reply", "idle">>

\* C2 as stated: the accessor yields a payload iff idle has been observed.
C2_ObservableIffIdle ==
    \A i \in Ids : Truthy(reply_content(proxy[i])) <=> proxy[i].kernel_idle

\* C2 amended: the accessor yields a payload iff idle has been observed and an
\* execute_reply has been recorded, in either order of arrival; so a payload
\* is observable only if idle has been observed, not whenever it has.
C2_ObservableIffIdleAndReplied ==
    \A i \in Ids :
        /\ Truthy(reply_content(proxy[i]))
               <=> (proxy[i].kernel_idle /\ "reply" \in Handed(i))
        /\ Truthy(reply_content(proxy[i])) => reply_content(proxy[i]) = hist.reply[i]

\* C2 witness: idle came first, then the reply, and the payload is observable.
C2_Witness ==
    \E i \in Ids : hist.got[i] = <<"idle", "reply">> /\ Truthy(reply_content(proxy[i]))

\* C3: a proxy that was handed idle then reply R, and one that was handed R
\* then idle, end in the same state: idle observed, R recorded and exposed.
C3_OrderIndependent ==
    \A i \in Ids :
        \A order \in {<<"idle", "reply">>, <<"reply", "idle">>} :
            hist.got[i] = order =>
                /\ proxy[i] = [reply_content |-> hist.reply[i], kernel_idle |-> TRUE]
                /\ reply_content(proxy[i]) = hist.reply[i]
                /\ hist.reply[i] \in {"ok", "error"}

\* C3 witness: a proxy handed the reply first and idle second.
C3_Witness ==
    \E i \in Ids : hist.got[i] = <<"reply", "idle">> /\ reply_content(proxy[i]) = "error"

NoRequestForwarded ==
    \A s \in shell_streams : \A k \in DOMAIN shell_sinks[s] :
        shell_sinks[s][k].msg_type # "execute_request"

\* The shell reader of b hands an execute_request to call_handlers in this step.
EchoDelivered(b) ==
    /\ shell_q[b] # <<>>
    /\ Head(shell_q[b]).msg_type = "execute_request"
    /\ shell_q'[b] = Tail(shell_q[b])

\* C4: no execute_request is ever written to a shell stream, and handing an
\* execute_request to the shell handler changes neither a proxy nor a sink.
C4_EchoSuppressed ==
    [][/\ NoRequestForwarded'
       /\ \A b \in Targets :
            EchoDelivered(b) => UNCHANGED <<proxy, shell_sinks, iopub_socket>>]_vars

\* C4 witness: a proxy was handed an execute_request, and later messages
\* were forwarded to the shell streams.
C4_Witness ==
    \E i \in hist.echoed : \A s \in shell_streams : shell_sinks[s] # <<>>

\* The requests that were sent to a sub-kernel of binding b.
Users(b) == {i \in Ids : hist.used[i].binding_name = b}

Returns == pc = "abort" /\ pc' = "ready"

\* C6: when a delegated request returns, _abort_queues has been called iff the
\* request was not silent, the reply handed to its proxy has status error and
\* stop_on_error is set or absent; otherwise the pending requests are untouched.
C6_AbortIffErrorAndStop ==
    [][Returns =>
        LET must == /\ ~cur.silent
                    /\ hist.reply[cur.id] = "error"
                    /\ cur.stop_on_error \in {"True", "absent"}
            pending == {queue[i].id : i \in DOMAIN queue}
        IN  /\ (cur.id \in hist'.aborts) <=> must
            /\ must => queue' = <<>> /\ hist'.aborted = hist.aborted \cup pending
            /\ ~must => queue' = queue /\ hist'.aborted = hist.aborted]_vars

\* C6 witness: a delegated request has returned after calling _abort_queues,
\* which removed a pending request.
C6_Witness ==
    /\ hist.aborts # {} /\ hist.aborted # {}
    /\ pc = "ready"

\* The dispatcher is between two requests, the next one has no binding name,
\* and this step takes requests off the queue.
UntaggedTaken ==
    /\ pc = "ready" /\ queue # <<>>
    /\ Head(queue).binding_name = None
    /\ queue' # queue /\ Len(queue') <= Len(queue)

\* C7: a request without binding name is given to the local engine and nothing
\* else happens: no spawn, _kernels unchanged, nothing piped, nothing sent to a
\* sub-kernel, no abort of the pending queue by the dispatcher.
C7_UntaggedPassThrough ==
    [][UntaggedTaken =>
        /\ queue' = Tail(queue)
        /\ hist'.local = Append(hist.local, Head(queue).id)
        /\ UNCHANGED <<pc, cur, kernels, nextHandle, shell_out, iopub_q, shell_q,
                       iopub_pipes, shell_pipes, proxy, iopub_socket, shell_sinks>>
        /\ hist'.spawned = hist.spawned
        /\ hist'.aborts = hist.aborts
        /\ hist'.aborted = hist.aborted
        /\ hist'.shutdown = hist.shutdown
        /\ hist'.failed = hist.failed]_vars

\* C7 witness: the second request was given to the local engine after the
\* first one had been delegated to a sub-kernel.
C7_Witness ==
    /\ hist.local = <<2>>
    /\ \E b \in Targets : kernels[b] # 0

\* spawn_kernel raises in this step.
SpawnRaises == hist'.failed # hist.failed

C14_SpawnFailureAnswered ==
    \A i \in hist.failed :
        /\ \E k \in DOMAIN shell_sinks["shell"] :
              shell_sinks["shell"][k] = Msg("execute_reply", "error", i)
        /\ hist.used[i].kc = 0

\* What session.send writes for a message handed to a handler.
Forwarded(in) == Msg(in.msg_type, in.content, in.parent)

\* The messages handed to the shell handler without the execute_requests.
NotEcho(in) == in.msg_type # "execute_request"
ShellToForward == SelectSeq(hist.in_shell, NotEcho)

\* The execute_replies handed to the shell handler.
IsReply(in) == in.msg_type = "execute_reply"
RepliesHanded == SelectSeq(hist.in_shell, IsReply)

\* C15: the iopub socket holds, once each and unchanged in type and content,
\* the messages handed to the iopub handler; each shell stream holds, once
\* each and unchanged, the messages handed to the shell handler except the
\* execute_requests; all of them have the request being executed as parent;
\* and the reply recorded by the proxy is the content of the execute_reply
\* it was handed.
C15_ForwardedOnceUnchanged ==
    /\ iopub_socket = [k \in DOMAIN hist.in_iopub |-> Forwarded(hist.in_iopub[k])]
    /\ \A s \in shell_streams :
         shell_sinks[s] = [k \in DOMAIN ShellToForward |-> Forwarded(ShellToForward[k])]
    /\ (hist.in_iopub # <<>> \/ hist.in_shell # <<>>) =>
         /\ pc # "ready"
         /\ \A k \in DOMAIN hist.in_iopub : hist.in_iopub[k].parent = cur.id
         /\ \A k \in DOMAIN hist.in_shell : hist.in_shell[k].parent = cur.id
         /\ proxy[cur.id].reply_content =
               IF RepliesHanded = <<>> THEN None
               ELSE RepliesHanded[Len(RepliesHanded)].content

\* C15 witness: the handlers were handed the handshake's idle, busy, idle,
\* the request coming back and the reply; three messages went to iopub, one
\* to each shell stream, and the reply is recorded.
C15_Witness ==
    /\ Len(hist.in_iopub) = 3 /\ Len(iopub_socket) = 3
    /\ Len(hist.in_shell) = 2
    /\ \A s \in shell_streams : Len(shell_sinks[s]) = 1
    /\ proxy[cur.id].reply_content = "ok"

\* Message a was emitted before message b on the same channel of one
\* sub-kernel, which handles the messages it is sent one after the other.
EmittedBefore(a, b) ==
    a.origin < b.origin \/ (a.origin = b.origin /\ a.seq < b.seq)

InEmissionOrder(ins) ==
    \A k, l \in DOMAIN ins : k < l => EmittedBefore(ins[k], ins[l])

\* C16: on each channel the messages of the sub-kernel reach the handler in
\* the order of emission, and the caller's iopub socket and shell streams get
\* them in that order (the shell streams without the execute_requests); no
\* two forwarded messages are swapped.
C16_ForwardedInEmissionOrder ==
    /\ InEmissionOrder(hist.in_iopub)
    /\ InEmissionOrder(hist.in_shell)
    /\ Len(iopub_socket) = Len(hist.in_iopub)
    /\ \A k \in DOMAIN iopub_socket :
         /\ iopub_socket[k].msg_type = hist.in_iopub[k].msg_type
         /\ iopub_socket[k].content = hist.in_iopub[k].content
    /\ \A s \in shell_streams :
         /\ Len(shell_sinks[s]) = Len(ShellToForward)
         /\ \A k \in DOMAIN shell_sinks[s] :
              /\ shell_sinks[s][k].msg_type = ShellToForward[k].msg_type
              /\ shell_sinks[s][k].content = ShellToForward[k].content

\* C16 witness: busy and idle of the request were forwarded to iopub, in this
\* order, and the reply to the shell streams after the request came back.
C16_Witness ==
    /\ pc = "wait"
    /\ iopub_socket = <<Msg("status", "busy", cur.id), Msg("status", "idle", cur.id)>>
    /\ cur.id \in hist.echoed
    /\ shell_sinks["shell"] = <<Msg("execute_reply", "error", cur.id)>>

\* C17 as stated: _kernel_idle of a proxy is set only when its iopub handler
\* has been handed an idle status emitted for the request of the proxy.
C17_IdleObservedOnlyOnOwnIdle ==
    \A i \in Ids :
        proxy[i].kernel_idle =>
            \E k \in DOMAIN hist.in_iopub :
                /\ hist.in_iopub[k].parent = i
                /\ IsIdle(hist.in_iopub[k])
                /\ hist.in_iopub[k].origin = i

\* C18: between two requests neither channel of any client has a handler; at
\* any time a channel has at most one handler, only the channels of the
\* client of the current request have one, it is a handler of the proxy of
\* the current request, and no handler is handed a message of a request
\* later than its own.
C18_HandlersOfCurrentRequestOnly ==
    /\ pc \in {"ready", "abort"} =>
         \A b \in Targets : iopub_pipes[b] = <<>> /\ shell_pipes[b] = <<>>
    /\ \A b \in Targets :
         /\ Len(iopub_pipes[b]) <= 1 /\ Len(shell_pipes[b]) <= 1
         /\ iopub_pipes[b] # <<>> =>
              /\ pc # "ready" /\ b = cur.binding_name
              /\ iopub_pipes[b] = <<Handler("on_iopub_message", cur.id)>>
         /\ shell_pipes[b] # <<>> =>
              /\ pc # "ready" /\ b = cur.binding_name
              /\ shell_pipes[b] = <<Handler("on_shell_message", cur.id)>>
    /\ \A k \in DOMAIN hist.in_iopub :
         hist.in_iopub[k].origin <= hist.in_iopub[k].parent
    /\ \A k \in DOMAIN hist.in_shell :
         hist.in_shell[k].origin <= hist.in_shell[k].parent

\* C18 witness: the second request runs on the sub-kernel the first one ran
\* on, and its handlers are the only ones piped.
C18_Witness ==
    /\ pc = "wait" /\ cur.id = 2
    /\ hist.used[1].binding_name = cur.binding_name
    /\ iopub_pipes[cur.binding_name] = <<Handler("on_iopub_message", 2)>>
    /\ shell_pipes[cur.binding_name] = <<Handler("on_shell_message", 2)>>
    /\ hist.in_iopub # <<>>

\* C19: a binding name for which spawn_kernel has returned stays in _kernels
\* with the handle that call returned: it is never removed or replaced
\* (spawn_kernel returned once), the handle is not shut down, and every
\* request delegated to the name, also after a request that aborted the
\* queue, used that handle.
C19_HandleKept ==
    \A b \in Targets :
        hist.spawned[b] >= 1 =>
            /\ hist.spawned[b] = 1
            /\ kernels[b] # 0
            /\ kernels[b] \notin hist.shutdown
            /\ \A i \in Ids : hist.used[i].binding_name = b => hist.used[i].kc = kernels[b]

\* C19 witness: the first request aborted the queue, and the second one was
\* delegated to the same binding name and used the same handle.
C19_Witness ==
    /\ 1 \in hist.aborts
    /\ hist.used[1].binding_name # None
    /\ hist.used[2] = hist.used[1]
    /\ kernels[hist.used[1].binding_name] = hist.used[1].kc

\* C20 as stated: no execute_reply and no idle status emitted for a request
\* is handed to a channel that has no handler.
C20_NoResponseLost ==
    \A l \in hist.lost : ~(l.msg_type = "execute_reply" \/ IsIdle(l))

\* ------------------------------------------------------ the bootstrap agent
\* args.timeout after parse_args: --timeout has a default of 10 and no type=,
\* so the default stays the int 10 and a value given on the command line
\* stays the string that was typed.
Timeouts ==
    {[type |-> "int", value |-> DefaultTimeout]}
    \cup {[type |-> "str", value |-> v] : v \in 1..MaxTimeoutArg}

\* What the launcher may write to connection_file; the agent does not look
\* at it.
Descriptors == {"connection info", "not json"}

\* kernel.pid
kernel_pid == "pid"

\* lines 26-49: the command line is parsed, the launcher is started in a new
\* session and the clock is read.
InitAgent ==
    /\ args \in [timeout : Timeouts, log_to_file : BOOLEAN]
    /\ a_pc = "poll"
    /\ now = 0
    /\ file = None
    /\ proc = NoRet
    /\ ret = NoRet
    /\ stdout = <<>>
    /\ raised = NoError

\* The launched process writes its connection file. It runs in its own
\* session (start_new_session=True), whether the agent still runs or not.
KernelWritesFile ==
    /\ proc = NoRet /\ file = None
    /\ \E d \in Descriptors : file' = d
    /\ UNCHANGED <<kernelVars, managerVars, args, a_pc, now, proc, ret, stdout, raised>>

\* The launched process terminates with status s.
KernelExits ==
    /\ proc = NoRet
    /\ \E s \in 0..MaxStatus : proc' = s
    /\ UNCHANGED <<kernelVars, managerVars, args, a_pc, now, file, ret, stdout, raised>>

\* lines 53-57: the message of the TimeoutError. Line 54 builds the message
\* with the exit status; line 55 then assigns msg unconditionally.
TimeoutMessage(r, log_to_file) ==
    LET msg54 == IF r # NoRet
                 THEN Message("Kernel failed with status", r, FALSE)
                 ELSE Message("", NoRet, FALSE)
        msg55 == Message("Failed to find connection file", NoRet, FALSE)
        msg == IF TRUE THEN msg55 ELSE msg54
    IN  IF log_to_file THEN [msg EXCEPT !.log_file = TRUE] ELSE msg

\* time.perf_counter() - start > args.timeout (line 51); a float is not
\* comparable with a str.
Comparable(timeout) == timeout.type = "int"
Elapsed(t, timeout) == t > timeout.value * SleepsPerSecond

\* lines 50, 61-63: the connection file exists: the loop ends, the pid and
\* the contents of the file are printed.
AgentSucceeds ==
    /\ a_pc = "poll" /\ file # None
    /\ stdout' = <<kernel_pid, file>>
    /\ a_pc' = "done"
    /\ UNCHANGED <<kernelVars, managerVars, args, now, file, proc, ret, raised>>

\* line 51 with a timeout given on the command line: the comparison raises.
AgentTypeError ==
    /\ a_pc = "poll" /\ file = None
    /\ ~Comparable(args.timeout)
    /\ raised' = [type |-> "TypeError", msg |-> Message("'>' not supported", NoRet, FALSE)]
    /\ a_pc' = "raised"
    /\ UNCHANGED <<kernelVars, managerVars, args, now, file, proc, ret, stdout>>

\* lines 51-58: the timeout has elapsed.
AgentTimesOut ==
    /\ a_pc = "poll" /\ file = None
    /\ Comparable(args.timeout) /\ Elapsed(now, args.timeout)
    /\ ret' = proc
    /\ raised' = [type |-> "TimeoutError",
                  msg |-> TimeoutMessage(proc, args.log_to_file)]
    /\ a_pc' = "raised"
    /\ UNCHANGED <<kernelVars, managerVars, args, now, file, proc, stdout>>

\* lines 51, 59: the timeout has not elapsed: time.sleep(0.1).
AgentSleeps ==
    /\ a_pc = "poll" /\ file = None
    /\ Comparable(args.timeout) /\ ~Elapsed(now, args.timeout)
    /\ now' = now + 1
    /\ UNCHANGED <<kernelVars, managerVars, args, a_pc, file, proc, ret, stdout, raised>>

NextAgent ==
    \/ KernelWritesFile
    \/ KernelExits
    \/ AgentSucceeds
    \/ AgentTypeError
    \/ AgentTimesOut
    \/ AgentSleeps

\* The agent starts; no kernel process is involved.
InitSpecAgent == InitKernel /\ InitAgent /\ ManagerOff
SpecAgent == InitSpecAgent /\ [][NextAgent]_vars

\* -------------------------------------------------- properties of the agent
\* C8: when the agent fails having found the launched process terminated,
\* the message of the error states the exit status.
C8_ExitStatusReported ==
    (a_pc = "raised" /\ ret # NoRet) => raised.msg.status = ret

\* C9: when the agent has failed, the connection file never appeared and the
\* launched process is alive, the error is a TimeoutError raised after the
\* timeout has elapsed, by at most one sleep, and its message names the log
\* file iff --log-file is set.
C9_TimeoutErrorAfterTimeout ==
    (a_pc = "raised" /\ proc = NoRet /\ file = None) =>
        /\ raised.type = "TimeoutError"
        /\ Elapsed(now, args.timeout)
        /\ ~Elapsed(now - 1, args.timeout)
        /\ raised.msg.log_file <=> args.log_to_file

\* C10: when the connection file exists and the agent has not seen the timeout
\* elapse, the agent has not failed, and once it is done it has printed the
\* pid followed by the contents of the file.
C10_SucceedsWhenFileAppears ==
    (file # None /\ ~Elapsed(now, args.timeout)) =>
        /\ a_pc # "raised"
        /\ a_pc = "done" => stdout = <<kernel_pid, file>>

\* With the default timeout (no --timeout on the command line) the polling
\* loop does what C9 and C10 say.
DefaultTimeoutRuns ==
    args.timeout.type = "int" =>
        C9_TimeoutErrorAfterTimeout /\ C10_SucceedsWhenFileAppears

\* ------------------------------------------------------- the kernel manager
\* The five ports of a connection info, in the order of kernel.py:92-96.
PortsOf(t) == [shell_port |-> t[1], iopub_port |-> t[2], stdin_port |-> t[3],
               hb_port |-> t[4], control_port |-> t[5]]

\* Five consecutive ports.
PortRange(base) == <<base + 1, base + 2, base + 3, base + 4, base + 5>>

\* The ports of a manager before load_connection_info: all 0.
ZeroPorts == PortsOf(<<0, 0, 0, 0, 0>>)

\* res["connection"] of a spawn result: the ports the engine listens on, on
\* the target.
RemotePorts == {PortsOf(PortRange(5000)), PortsOf(PortRange(6000))}

\* What tunnel_to_kernel returns: the local ends of the five tunnels.
LocalPorts == {PortRange(7000), PortRange(8000)}

\* Variant of needs_tunnel: the binding is not asked whether it is loopback.
needs_tunnel_IgnoresLoopback(k) == k.tunnel
\* HydraKernelManager.needs_tunnel (kernel.py:68-70)
needs_tunnel(k) == k.tunnel /\ ~k.is_loopback

\* spawn_kernel is called for a binding: the manager is created with its
\* tunnel setting, init_binding gives it the binding (kernel.py:113-121).
InitManager ==
    /\ km \in [tunnel : BOOLEAN, is_loopback : BOOLEAN]
    /\ m_pc = "lookup"
    /\ specs \in BOOLEAN
    /\ remote = 0
    /\ conn = ZeroPorts
    /\ m_raised = None
    /\ m_hist = [installs |-> 0, res |-> ZeroPorts, lports |-> <<>>, shutdown |-> FALSE]

\* pre_start_kernel, lines 78-80: get_kernel_spec returns, or raises
\* NoSuchKernel, which is caught.
LookupSpec ==
    /\ m_pc = "lookup"
    /\ m_pc' = IF specs THEN "exec" ELSE "install"
    /\ UNCHANGED <<kernelVars, agentVars, km, specs, remote, conn, m_raised, m_hist>>

\* pre_start_kernel, line 81: install_kernel_spec(None, kernel_name=...). It
\* makes the spec known, or returns without the spec being known, or raises.
\* When it returns, pre_start_kernel goes on with line 84.
InstallSpec ==
    /\ m_pc = "install"
    /\ \E outcome \in {"installed", "not installed", "raises"} :
         /\ specs' = (outcome = "installed")
         /\ m_pc' = IF outcome = "raises" THEN "raised" ELSE "exec"
         /\ m_raised' = IF outcome = "raises" THEN "InstallError" ELSE m_raised
    /\ m_hist' = [m_hist EXCEPT !.installs = @ + 1]
    /\ UNCHANGED <<kernelVars, agentVars, km, remote, conn>>

\* What "hydra spawn" leaves behind: whether an engine runs on the target,
\* and whether stdout is a JSON document with a "connection" entry.
SpawnOutputs ==
    [started : {TRUE}, json : {TRUE}, connection : RemotePorts]
    \cup [started : BOOLEAN, json : {FALSE}, connection : {ZeroPorts}]

\* pre_start_kernel, lines 84-87: self._binding.exec("hydra spawn ...") and
\* json.load(stdout). The exit code is not looked at; json.load raises on
\* anything that is not one JSON document.
ExecSpawn ==
    /\ m_pc = "exec"
    /\ \E out \in SpawnOutputs :
         /\ remote' = IF out.started THEN remote + 1 ELSE remote
         /\ m_hist' = IF out.json THEN [m_hist EXCEPT !.res = out.connection] ELSE m_hist
         /\ m_pc' = IF out.json THEN "load" ELSE "raised"
         /\ m_raised' = IF out.json THEN m_raised ELSE "JSONDecodeError"
    /\ UNCHANGED <<kernelVars, agentVars, km, specs, conn>>

\* pre_start_kernel, line 89: self.load_connection_info(res["connection"])
LoadConnection ==
    /\ m_pc = "load"
    /\ conn' = m_hist.res
    /\ m_pc' = "tunnel"
    /\ UNCHANGED <<kernelVars, agentVars, km, specs, remote, m_raised, m_hist>>

\* pre_start_kernel, lines 91-101, needs_tunnel true: the five ports are
\* assigned from the tuple tunnel_to_kernel returns.
Tunnel ==
    /\ m_pc = "tunnel"
    /\ needs_tunnel(km)
    /\ \E t \in LocalPorts :
         /\ conn' = PortsOf(t)
         /\ m_hist' = [m_hist EXCEPT !.lports = t]
    /\ m_pc' = "super"
    /\ UNCHANGED <<kernelVars, agentVars, km, specs, remote, m_raised>>

\* pre_start_kernel, lines 91-101, needs_tunnel true: tunnel_to_kernel raises.
TunnelFails ==
    /\ m_pc = "tunnel"
    /\ needs_tunnel(km)
    /\ m_pc' = "raised"
    /\ m_raised' = "TunnelError"
    /\ UNCHANGED <<kernelVars, agentVars, km, specs, remote, conn, m_hist>>

\* pre_start_kernel, line 91, needs_tunnel false: nothing is assigned.
NoTunnel ==
    /\ m_pc = "tunnel"
    /\ ~needs_tunnel(km)
    /\ m_pc' = "super"
    /\ UNCHANGED <<kernelVars, agentVars, km, specs, remote, conn, m_raised, m_hist>>

\* pre_start_kernel, line 103: super().pre_start_kernel(**kw) builds the
\* launch command from the kernel spec, which it looks up by kernel_name:
\* NoSuchKernel when the spec is still not known. Otherwise start_kernel
\* returns and spawn_kernel goes on (kernel.py:179-181).
SuperPreStart ==
    /\ m_pc = "super"
    /\ m_pc' = IF specs THEN "client" ELSE "raised"
    /\ m_raised' = IF specs THEN m_raised ELSE "NoSuchKernel"
    /\ UNCHANGED <<kernelVars, agentVars, km, specs, remote, conn, m_hist>>

\* spawn_kernel, lines 183-185 and 190: km.client() and kc.start_channels()
\* return; spawn_kernel returns (km, kc).
StartChannels ==
    /\ m_pc = "client"
    /\ m_pc' = "returned"
    /\ UNCHANGED <<kernelVars, agentVars, km, specs, remote, conn, m_raised, m_hist>>

\* spawn_kernel, lines 186-188: a RuntimeError of the try block:
\* km.shutdown_kernel(), then the error is raised again.
StartChannelsFails ==
    /\ m_pc = "client"
    /\ m_hist' = [m_hist EXCEPT !.shutdown = TRUE]
    /\ m_pc' = "raised"
    /\ m_raised' = "RuntimeError"
    /\ UNCHANGED <<kernelVars, agentVars, km, specs, remote, conn>>

NextManager ==
    \/ LookupSpec
    \/ InstallSpec
    \/ ExecSpawn
    \/ LoadConnection
    \/ Tunnel
    \/ TunnelFails
    \/ NoTunnel
    \/ SuperPreStart
    \/ StartChannels
    \/ StartChannelsFails

\* One spawn_kernel call; the dispatcher and the agent are not involved.
InitSpecManager == InitKernel /\ AgentOff /\ InitManager
SpecManager == InitSpecManager /\ [][NextManager]_vars

\* ---------------------------------------- properties of the kernel manager
\* pre_start_kernel is past lines 91-101.
PastTunnel == m_pc \in {"super", "client", "returned"}

\* C11: once a spawn is past the tunnel step, the five ports of the manager
\* are the ones tunnel_to_kernel returned iff tunnel is set and the binding
\* is not loopback; with a loopback binding, or with tunnel unset,
\* tunnel_to_kernel was not called and the ports are the ones loaded from the
\* spawn result.
C11_TunnelPortsIffNeeded ==
    PastTunnel =>
        IF km.tunnel /\ ~km.is_loopback
        THEN /\ m_hist.lports \in LocalPorts
             /\ conn = PortsOf(m_hist.lports)
             /\ conn # m_hist.res
        ELSE /\ m_hist.lports = <<>>
             /\ conn = m_hist.res
             /\ conn \in RemotePorts

\* C11 witness: a spawn through a tunnel has returned with the local ports,
\* the spawn result having named other ones.
C11_Witness ==
    /\ m_pc = "returned"
    /\ km.tunnel /\ ~km.is_loopback
    /\ conn \in {PortsOf(t) : t \in LocalPorts}
    /\ m_hist.res \in RemotePorts

\* C13 as stated: a missing spec causes one install, and when the spec is
\* still not known after the install, the start fails without an engine
\* having been started on the target.
C13_NoEngineWhenSpecStaysMissing ==
    /\ m_hist.installs <= 1
    /\ (m_hist.installs = 1 /\ ~specs) => remote = 0
    /\ (m_raised = "NoSuchKernel") => remote = 0

====
